---- MODULE Spec2Model ----
(***************************************************************************)
(* The instinct-driven Monte Carlo tree search of llm-instinct:            *)
(* core/Node.js (the decision node) and core/InstinctMCTS.js (the engine), *)
(* with the text-generation collaborator as the environment.               *)
(*                                                                         *)
(* Numbers are fixed-point integers:                                       *)
(*   metrics (emotionalState, instinctWeight, confidence, perseverance)    *)
(*     in thousandths, 1.0 = One;                                          *)
(*   scores and accumulated values in tenths, 5 = 50;                      *)
(*   the coefficients explorationWeight, confidenceBias and                *)
(*     perseveranceFactor in tenths, 1.4 = 14;                             *)
(*   uctValue in hundredths.                                               *)
(* NaN and -Infinity are two reserved values with JavaScript's rules:      *)
(* arithmetic on NaN gives NaN and every comparison with NaN is false.     *)
(***************************************************************************)
EXTENDS Integers, Sequences, FiniteSets, TLC

VARIABLES
    nodes,          \* the heap of Node objects, in creation order
    root,           \* this.root: a node, or Null
    selectedNode,   \* this.selectedNode: a node, or Null
    treeHistory,    \* this.treeHistory: the snapshots recorded so far
    config,         \* instinctRatio and perseveranceFactor of the engine
    pc,             \* where the running operation stands; "idle" between calls
    op,             \* the running top-level call and its loop counters
    cur,            \* select(): the local `node`
    leaf,           \* search(): the local `leaf`; the node of a manual exploration
    score,          \* the value the last this.simulate(node) call returned
    llmEval,        \* what the collaborator answers to a scoring prompt in this step
    best,           \* simulate(iterations, ...): the locals bestNode and bestScore
    rounds,         \* simulate(iterations, ...): (currentBest, score) of each round so far
    result,         \* what the last completed simulate(iterations, ...) returned
    returned,       \* the node the last completed select, search or getBestNode returned
    calls,          \* number of top-level calls made so far
    observed,       \* what the onUpdate callback received last: <<>> or <<snapshot>>
    thrown,         \* the operation whose error reached the caller of the last call, or "none"
    analyzed,       \* analyzeContent: the collaborator's reply and the result returned for it
    requests,       \* expand(): the generation requests of the call in progress
    passes          \* history: backpropagate calls completed since this.root was assigned

vars == <<nodes, root, selectedNode, treeHistory, config, pc, op, cur, leaf,
          score, llmEval, best, rounds, result, returned, calls, observed, thrown,
          analyzed, requests, passes>>

-----------------------------------------------------------------------------
(* Bounds of the model *)

MaxNodes == 5
MaxCalls == 2
MaxIterations == 2
MaxSimulations == 2

-----------------------------------------------------------------------------
(* JavaScript numbers *)

One == 1000
Null == 0
NaN == -999999999
NegInfinity == -999999998

JsAdd(a, b) == IF a = NaN \/ b = NaN THEN NaN ELSE a + b
JsMin(a, b) == IF a = NaN \/ b = NaN THEN NaN ELSE IF a < b THEN a ELSE b
JsMax(a, b) == IF a = NaN \/ b = NaN THEN NaN ELSE IF a > b THEN a ELSE b
JsGt(a, b) == a # NaN /\ b # NaN /\ a > b

\* Math.max(0, Math.min(1, x)): NaN passes through both.
Clamp01(x) == JsMax(0, JsMin(One, x))

\* A value returned by this.simulate(node): a number (in tenths), or the
\* result object {bestApproach, bestNode, bestScore, treeHistory, finalTree}.
NumScore(n) == [kind |-> "number", n |-> n]
ResultObject == [kind |-> "object", n |-> 0]

\* ToNumber: an object without valueOf converts through "[object Object]" to NaN.
ToNumber(s) == IF s.kind = "number" THEN s.n ELSE NaN

\* Node.value: a number n while tail is empty; once a non-number was added
\* with +=, the string String(n) followed by the pieces of tail.
NumValue(n) == [n |-> n, tail |-> <<>>]

\* value += score: numeric addition of two numbers, string concatenation otherwise.
ValuePlus(v, s) ==
    IF v.tail = <<>> /\ s.kind = "number"
    THEN [n |-> JsAdd(v.n, s.n), tail |-> <<>>]
    ELSE [n |-> v.n, tail |-> Append(v.tail, s)]

\* ToNumber of Node.value: a string holding "[object Object]" is NaN.
ValueToNumber(v) == IF v.tail = <<>> THEN v.n ELSE NaN

RECURSIVE isqrtBin(_, _, _)
isqrtBin(x, lo, hi) ==
    IF lo >= hi THEN lo
    ELSE LET mid == (lo + hi + 1) \div 2
         IN IF mid * mid <= x THEN isqrtBin(x, mid, hi) ELSE isqrtBin(x, lo, mid - 1)

\* floor(sqrt(x)) for 0 <= x < 2^30
isqrt(x) == isqrtBin(x, 0, 32767)

-----------------------------------------------------------------------------
(* The collaborator's texts.  A text is modelled by the indicator phrases   *)
(* that occur in it as substrings, ignoring case: all that the engine ever  *)
(* reads of a content.                                                      *)

perseveranceIndicators ==
    {"continue", "persist", "keep going", "don't give up", "try again", "despite",
     "nevertheless", "however", "still worth", "potential", "opportunity", "challenge"}

doubtIndicators ==
    {"stop", "quit", "abandon", "too difficult", "impossible", "not worth",
     "failure", "unlikely", "risky", "doubt"}

\* "I will persist and try again despite doubts"
TextPersist == {"persist", "try again", "despite", "doubt"}
\* "Too risky, better to quit"
TextDoubt == {"risky", "quit"}

\* _showsPerseverance(content)
showsPerseverance(content) ==
    LET perseveranceCount == Cardinality({w \in perseveranceIndicators : w \in content})
        doubtCount == Cardinality({w \in doubtIndicators : w \in content})
    IN perseveranceCount > doubtCount

\* What analyzeContent resolves to: four marks on the 1-10 scale.
AnalysisExample ==
    [confidence |-> 7, perseverance |-> 8, instinctVsAnalysis |-> 6, emotionalState |-> 5]
AnalysisLow ==
    [confidence |-> 2, perseverance |-> 1, instinctVsAnalysis |-> 3, emotionalState |-> 1]
\* JSON.parse output is returned as it is, whatever its numbers
AnalysisOffScale ==
    [confidence |-> 7, perseverance |-> 8, instinctVsAnalysis |-> 6, emotionalState |-> 12]

\* A generated text together with the analysis the collaborator gives of it.
Completions ==
    { [text |-> TextPersist, analysis |-> AnalysisExample],
      [text |-> TextDoubt, analysis |-> AnalysisLow],
      [text |-> TextPersist, analysis |-> AnalysisOffScale] }

\* analysis.x / 10, in thousandths
Tenth(x) == x * 100

-----------------------------------------------------------------------------
(* core/Node.js *)

\* new Node({content, parent, explorationWeight, confidenceBias, perseveranceFactor})
\* the constructor giving a child the depth of its parent
NewNodeDepthOfParent(heap, id, content, parent, ew, cb, pf) ==
    [ id |-> id,
      content |-> content,
      parent |-> parent,
      depth |-> IF parent # Null THEN heap[parent].depth ELSE 0,
      path |-> IF parent # Null THEN Append(heap[parent].path, heap[parent].id) ELSE <<>>,
      children |-> <<>>,
      visits |-> 0,
      value |-> NumValue(0),
      explorationWeight |-> ew,
      confidenceBias |-> cb,
      perseveranceFactor |-> pf,
      emotionalState |-> 500,
      instinctWeight |-> 500,
      confidence |-> 500,
      perseverance |-> 500 ]

NewNode(heap, id, content, parent, ew, cb, pf) ==
    [ id |-> id,
      content |-> content,
      parent |-> parent,
      depth |-> IF parent # Null THEN heap[parent].depth + 1 ELSE 0,
      path |-> IF parent # Null THEN Append(heap[parent].path, heap[parent].id) ELSE <<>>,
      children |-> <<>>,
      visits |-> 0,
      value |-> NumValue(0),
      explorationWeight |-> ew,
      confidenceBias |-> cb,
      perseveranceFactor |-> pf,
      emotionalState |-> 500,
      instinctWeight |-> 500,
      confidence |-> 500,
      perseverance |-> 500 ]

\* this._generateId() draws six random letters.  Here the draw is the next
\* unused identifier: the draws in which no identifier repeats.
generateId(heap) == Len(heap) + 1

\* addChild with this.children.unshift(child): the child is put in front of
\* its siblings
addChildIdInFront(heap, node, content, id) ==
    LET child == Len(heap) + 1
        withChild == Append(heap, NewNode(heap, id, content, node,
                                          heap[node].explorationWeight,
                                          heap[node].confidenceBias,
                                          heap[node].perseveranceFactor))
    IN [withChild EXCEPT ![node].children = <<child>> \o @]

\* node.addChild(content) when _generateId() draws `id`: the heap after the
\* call; the child is its last node.
addChildId(heap, node, content, id) ==
    LET child == Len(heap) + 1
        withChild == Append(heap, NewNode(heap, id, content, node,
                                          heap[node].explorationWeight,
                                          heap[node].confidenceBias,
                                          heap[node].perseveranceFactor))
    IN [withChild EXCEPT ![node].children = Append(@, child)]

\* node.addChild(content) with a draw that no node of the heap holds
addChild(heap, node, content) == addChildId(heap, node, content, generateId(heap))

\* node.findNodeById(id): the first node of the subtree of n, in depth-first
\* order, whose id is `id`, or Null
RECURSIVE findNodeById(_, _, _)
RECURSIVE findNodeByIdInChildren(_, _, _, _)
findNodeById(heap, n, id) ==
    IF heap[n].id = id THEN n ELSE findNodeByIdInChildren(heap, heap[n].children, 1, id)

findNodeByIdInChildren(heap, kids, i, id) ==
    IF i > Len(kids) THEN Null
    ELSE LET found == findNodeById(heap, kids[i], id)
         IN IF found # Null THEN found ELSE findNodeByIdInChildren(heap, kids, i + 1, id)

\* treeUtils findNodeById(root, id) on a snapshot tree: <<>> for null, <<node>>
\* for the first node found in depth-first order
RECURSIVE treeFindNodeById(_, _)
RECURSIVE treeFindNodeByIdInChildren(_, _, _)
treeFindNodeById(obj, id) ==
    IF obj.id = id THEN <<obj>> ELSE treeFindNodeByIdInChildren(obj.children, 1, id)

treeFindNodeByIdInChildren(kids, i, id) ==
    IF i > Len(kids) THEN <<>>
    ELSE LET found == treeFindNodeById(kids[i], id)
         IN IF found # <<>> THEN found ELSE treeFindNodeByIdInChildren(kids, i + 1, id)

\* Math.log(n + epsilon) in millionths, for a visit count n.
LnMicro(n) ==
    CASE n = 0 -> -13815511
      [] n = 1 -> 1
      [] n = 2 -> 693148
      [] n = 3 -> 1098613
      [] n = 4 -> 1386295
      [] n = 5 -> 1609438
      [] n = 6 -> 1791760
      [] n = 7 -> 1945910
      [] n = 8 -> 2079442
      [] n = 9 -> 2197225
      [] n = 10 -> 2302585
      [] n = 11 -> 2397895
      [] OTHER -> 2484907

\* Math.sqrt(Math.log(parent.visits + epsilon) / (visits + epsilon)) in hundredths;
\* the square root of a negative number is NaN.
SqrtTerm(parentVisits, visits) ==
    IF LnMicro(parentVisits) < 0 THEN NaN
    ELSE IF visits = 0 THEN 10 * isqrt(LnMicro(parentVisits) * 100)
    ELSE isqrt((LnMicro(parentVisits) \div visits) \div 100)

\* node.uctValue(), in hundredths
uctValue(heap, n) ==
    LET node == heap[n]
        value == ValueToNumber(node.value)
        \* value / (visits + epsilon): a node never visited has value 0
        exploitation ==
            IF value = NaN THEN NaN
            ELSE IF node.visits = 0 THEN value * 1000000
            ELSE (value * 10) \div node.visits
        root2 == SqrtTerm(heap[node.parent].visits, node.visits)
        exploration ==
            IF root2 = NaN THEN NaN ELSE (node.explorationWeight * root2) \div 10
        confidenceModifier ==
            IF node.emotionalState = NaN THEN NaN
            ELSE node.confidenceBias * node.emotionalState
        amplified ==
            IF exploration = NaN \/ confidenceModifier = NaN THEN NaN
            ELSE (exploration * ((10000 + confidenceModifier) \div 100)) \div 100
        perseveranceBoost ==
            IF node.perseverance = NaN THEN NaN
            ELSE (node.perseverance * node.perseveranceFactor) \div 100
    IN IF node.parent = Null THEN 0
       ELSE JsAdd(JsAdd(exploitation, amplified), perseveranceBoost)

\* node.updateContent(content)
updateContent(node, content) == [node EXCEPT !.content = content]

\* node.updateParameters(params): params is a function from field names to numbers.
updateParameters(node, params) ==
    LET has(f) == f \in DOMAIN params
    IN [node EXCEPT
          !.emotionalState = IF has("emotionalState") THEN Clamp01(params["emotionalState"]) ELSE @,
          !.instinctWeight = IF has("instinctWeight") THEN Clamp01(params["instinctWeight"]) ELSE @,
          !.confidence = IF has("confidence") THEN Clamp01(params["confidence"]) ELSE @,
          !.perseverance = IF has("perseverance") THEN Clamp01(params["perseverance"]) ELSE @,
          !.explorationWeight = IF has("explorationWeight") THEN params["explorationWeight"] ELSE @,
          !.confidenceBias = IF has("confidenceBias") THEN params["confidenceBias"] ELSE @,
          !.perseveranceFactor = IF has("perseveranceFactor") THEN params["perseveranceFactor"] ELSE @]

\* The nodes of the subtree rooted at n, in pre-order (Node.getAllNodes).
RECURSIVE getAllNodes(_, _)
RECURSIVE getAllOf(_, _, _)
getAllOf(heap, kids, i) ==
    IF i > Len(kids) THEN <<>>
    ELSE getAllNodes(heap, kids[i]) \o getAllOf(heap, kids, i + 1)
getAllNodes(heap, n) == <<n>> \o getAllOf(heap, heap[n].children, 1)

\* The nodes of the live tree.
TreeNodes == IF root = Null THEN {} ELSE {getAllNodes(nodes, root)[i] : i \in 1..Len(getAllNodes(nodes, root))}

-----------------------------------------------------------------------------
(* core/InstinctMCTS.js *)

explorationWeight == 14
confidenceBias == 2

\* _getCurrentTreeState(): nodeToObject(this.root) and the selected node's id
RECURSIVE nodeToObject(_, _)
nodeToObject(heap, n) ==
    [ id |-> heap[n].id,
      content |-> heap[n].content,
      visits |-> heap[n].visits,
      value |-> heap[n].value,
      emotionalState |-> heap[n].emotionalState,
      instinctWeight |-> heap[n].instinctWeight,
      confidence |-> heap[n].confidence,
      perseverance |-> heap[n].perseverance,
      children |-> [i \in 1..Len(heap[n].children) |-> nodeToObject(heap, heap[n].children[i])] ]

getCurrentTreeState(heap, r, sel) ==
    [ tree |-> nodeToObject(heap, r),
      selectedNodeId |-> IF sel # Null THEN heap[sel].id ELSE Null ]

\* _recordTreeState() keeping only the latest snapshot
recordTreeStateOverwrite(history, heap, r, sel) == <<getCurrentTreeState(heap, r, sel)>>

\* _recordTreeState() with snapshots that are views of the live tree: at each
\* push the earlier entries show the tree as it is now
recordTreeStateLive(history, heap, r, sel) ==
    [i \in 1..(Len(history) + 1) |-> getCurrentTreeState(heap, r, sel)]

\* _recordTreeState()
recordTreeState(history, heap, r, sel) == Append(history, getCurrentTreeState(heap, r, sel))

\* initialize(), up to the analysis: the heap with the new root as its last node
initializeRoot(heap, content, pf) ==
    Append(heap, NewNode(heap, generateId(heap), content, Null,
                         explorationWeight, confidenceBias, pf))

\* initialize(), the two assignments from the analysis
initializeMetrics(heap, r, analysis) ==
    [heap EXCEPT ![r].emotionalState = Tenth(analysis.emotionalState),
                 ![r].instinctWeight = Tenth(analysis.instinctVsAnalysis)]

\* select(), the instinct branch: the index of the child drawn for `random`
\* (in thousandths), or 0 when the for loop ends without a break.
RECURSIVE sumStates(_, _, _)
sumStates(heap, kids, i) ==
    IF i = 0 THEN 0 ELSE JsAdd(sumStates(heap, kids, i - 1), heap[kids[i]].emotionalState)

instinctChoice(heap, node, random) ==
    LET kids == heap[node].children
        \* weights.reduce((sum, weight) => sum + weight, 0.001)
        totalWeight == JsAdd(1, sumStates(heap, kids, Len(kids)))
        \* random <= cumulativeWeight, with cumulativeWeight = (w1 + .. + wi) / totalWeight
        reached(i) ==
            LET cumulative == sumStates(heap, kids, i)
            IN totalWeight # NaN /\ cumulative # NaN
               /\ random * totalWeight <= One * cumulative
        hits == {i \in 1..Len(kids) : reached(i)}
    IN IF hits = {} THEN 0 ELSE CHOOSE i \in hits : \A j \in hits : i <= j

\* select(), the analytical branch:
\* node.children.reduce((best, child) => child.uctValue() > best.uctValue() ? child : best, node.children[0])
RECURSIVE reduceUct(_, _, _)
reduceUct(heap, kids, i) ==
    IF i = 0 THEN kids[1]
    ELSE LET bestSoFar == reduceUct(heap, kids, i - 1)
         IN IF JsGt(uctValue(heap, kids[i]), uctValue(heap, bestSoFar)) THEN kids[i] ELSE bestSoFar

analyticalChoice(heap, node) == reduceUct(heap, heap[node].children, Len(heap[node].children))

\* the loop of expand() with a failed analysis taking the child it was made
\* for off its parent's children again
RECURSIVE expandLoopDetaching(_, _, _, _, _)
expandLoopDetaching(heap, node, thoughts, i, failAt) ==
    IF i > Len(thoughts) THEN heap
    ELSE LET withChild == addChild(heap, node, thoughts[i].text)
             child == Len(withChild)
             analysis == thoughts[i].analysis
             analysed == [withChild EXCEPT
                            ![child].emotionalState = Tenth(analysis.emotionalState),
                            ![child].instinctWeight = Tenth(analysis.instinctVsAnalysis),
                            ![child].confidence = Tenth(analysis.confidence),
                            ![child].perseverance = Tenth(analysis.perseverance)]
         IN IF i = failAt THEN [withChild EXCEPT ![node].children = heap[node].children]
            ELSE expandLoopDetaching(analysed, node, thoughts, i + 1, failAt)

\* the loop of expand() leaving after its first pass: one child per call
expandLoopFirstOnly(heap, node, thoughts, i, failAt) ==
    expandLoopDetaching(heap, node, SubSeq(thoughts, 1, 1), i, failAt)

\* expand(), the loop `for (const thought of thoughts)`: child i is created,
\* then analysed; the analysis of child failAt throws (0: none does).
RECURSIVE expandLoop(_, _, _, _, _)
expandLoop(heap, node, thoughts, i, failAt) ==
    IF i > Len(thoughts) THEN heap
    ELSE LET withChild == addChild(heap, node, thoughts[i].text)
             child == Len(withChild)
             analysis == thoughts[i].analysis
             analysed == [withChild EXCEPT
                            ![child].emotionalState = Tenth(analysis.emotionalState),
                            ![child].instinctWeight = Tenth(analysis.instinctVsAnalysis),
                            ![child].confidence = Tenth(analysis.confidence),
                            ![child].perseverance = Tenth(analysis.perseverance)]
         IN IF i = failAt THEN withChild
            ELSE expandLoop(analysed, node, thoughts, i + 1, failAt)

\* expand(), its return value: childNodes sorted by descending instinctWeight
\* (a stable sort of the local array), first element.
expandResult(heap, childNodes) ==
    CHOOSE c \in childNodes :
        /\ \A d \in childNodes : heap[c].instinctWeight >= heap[d].instinctWeight
        /\ \A d \in childNodes : heap[d].instinctWeight = heap[c].instinctWeight => c <= d

\* simulate(node), lines 189-222: the score for the collaborator's reply.
\* A reply is "fail" (the request throws), "none" (no digits in the text)
\* or the first integer in the text.
EvalReplies == {[kind |-> "fail", int |-> 0], [kind |-> "none", int |-> 0],
                [kind |-> "int", int |-> 4]}

simulateNode(heap, node, reply) ==
    IF reply.kind = "fail" THEN 50
    ELSE LET raw == IF reply.kind = "int"
                    THEN 10 * (IF reply.int > 10 THEN 10 ELSE IF reply.int < 1 THEN 1 ELSE reply.int)
                    ELSE 50
         IN IF showsPerseverance(heap[node].content)
            THEN (raw * (10 + heap[node].perseveranceFactor)) \div 10
            ELSE raw

\* backpropagate with the loop ending at the root instead of after it:
\* `while (current.parent)`
RECURSIVE backpropagateBelowRoot(_, _, _)
backpropagateBelowRoot(heap, node, s) ==
    IF node = Null \/ heap[node].parent = Null THEN heap
    ELSE LET emotionalImpact == IF ToNumber(s) = NaN THEN NaN ELSE 2 * (ToNumber(s) - 50)
             updated == [heap EXCEPT
                            ![node].visits = @ + 1,
                            ![node].value = ValuePlus(@, s),
                            ![node].emotionalState = Clamp01(JsAdd(@, emotionalImpact))]
         IN backpropagateBelowRoot(updated, heap[node].parent, s)

\* backpropagate without `current = current.parent`: the node alone is updated
backpropagateNodeOnly(heap, node, s) ==
    IF node = Null THEN heap
    ELSE LET emotionalImpact == IF ToNumber(s) = NaN THEN NaN ELSE 2 * (ToNumber(s) - 50)
         IN [heap EXCEPT
               ![node].visits = @ + 1,
               ![node].value = ValuePlus(@, s),
               ![node].emotionalState = Clamp01(JsAdd(@, emotionalImpact))]

\* backpropagate(node, score)
RECURSIVE backpropagate(_, _, _)
backpropagate(heap, node, s) ==
    IF node = Null THEN heap
    ELSE LET emotionalImpact == IF ToNumber(s) = NaN THEN NaN ELSE 2 * (ToNumber(s) - 50)
             updated == [heap EXCEPT
                            ![node].visits = @ + 1,
                            ![node].value = ValuePlus(@, s),
                            ![node].emotionalState = Clamp01(JsAdd(@, emotionalImpact))]
         IN backpropagate(updated, heap[node].parent, s)

\* getBestNode(): current.children.reduce((best, child) =>
\*   child.visits > best.visits ? child : best, current.children[0]) down to a leaf
\* the reduce of getBestNode() with >= for >: the last of equal counts wins
RECURSIVE reduceVisitsLastWins(_, _, _)
reduceVisitsLastWins(heap, kids, i) ==
    IF i = 0 THEN kids[1]
    ELSE LET bestSoFar == reduceVisitsLastWins(heap, kids, i - 1)
         IN IF heap[kids[i]].visits >= heap[bestSoFar].visits THEN kids[i] ELSE bestSoFar

RECURSIVE reduceVisits(_, _, _)
reduceVisits(heap, kids, i) ==
    IF i = 0 THEN kids[1]
    ELSE LET bestSoFar == reduceVisits(heap, kids, i - 1)
         IN IF heap[kids[i]].visits > heap[bestSoFar].visits THEN kids[i] ELSE bestSoFar

mostVisitedChild(heap, node) == reduceVisits(heap, heap[node].children, Len(heap[node].children))

RECURSIVE descendVisits(_, _)
descendVisits(heap, current) ==
    IF Len(heap[current].children) > 0
    THEN descendVisits(heap, mostVisitedChild(heap, current))
    ELSE current

getBestNode(heap, r) == IF r = Null THEN Null ELSE descendVisits(heap, r)

\* this.simulate(node), as search() and the re-evaluation in
\* simulate(iterations, simulationsPerIteration) call it.  The class body
\* defines simulate twice (lines 189 and 305) and the later definition is the
\* method: the node arrives as `iterations`, the root exists, `0 < iterations`
\* compares 0 with NaN, the loop body never runs and the call resolves to the
\* result object of lines 328-334, whatever the collaborator would reply.
simulate(heap, node, reply) == ResultObject

\* score > bestScore (line 322)
ScoreGt(a, b) == JsGt(ToNumber(a), ToNumber(b))

-----------------------------------------------------------------------------
(* Inputs *)

\* instinctRatio, in thousandths, and perseveranceFactor, in tenths
InstinctRatios == {0, 500, 1000}
PerseveranceFactors == {5}
\* Math.random() for the inverse-CDF draw, in thousandths
RandomDraws == {0, 500, 999}
\* scores handed to backpropagate by a direct caller, in tenths
ScoreInputs == {10, 50, 100}
\* contents given to addChild and updateContent by a direct caller
NodeContents == {TextPersist, TextDoubt}
\* arguments of updateParameters
ParamInputs ==
    { [emotionalState |-> 1500, instinctWeight |-> -500],
      [confidence |-> 300, perseverance |-> 700, perseveranceFactor |-> 9] }

NoOp == [name |-> "none", iterations |-> 0, numSimulations |-> 0, i |-> 0, sim |-> 0,
         numChildren |-> 0, fresh |-> FALSE]
NoScore == [kind |-> "none", n |-> 0]
NoReply == [kind |-> "unasked", int |-> 0]
NoBest == [node |-> Null, score |-> NumScore(NegInfinity)]
NoNode == [by |-> "none", node |-> Null]
NoAnalysis == <<>>
NoRequests == [texts |-> <<>>, completed |-> <<>>]
NoResult == [returned |-> FALSE, bestNode |-> Null, bestScore |-> NumScore(NegInfinity),
             iterations |-> 0, simulationsPerIteration |-> 0, fresh |-> FALSE,
             rounds |-> <<>>]

Children(n) == nodes[n].children

\* the locals of a call are gone when it returns or throws
Return ==
    /\ pc' = "idle"
    /\ op' = NoOp
    /\ cur' = Null
    /\ leaf' = Null
    /\ score' = NoScore
    /\ llmEval' = NoReply
    /\ best' = NoBest
    /\ rounds' = <<>>

\* a caller starts a new top-level call
Call ==
    /\ pc = "idle"
    /\ calls < MaxCalls
    /\ calls' = calls + 1
    /\ result' = NoResult
    /\ returned' = NoNode

Init ==
    /\ nodes = <<>>
    /\ root = Null
    /\ selectedNode = Null
    /\ treeHistory = <<>>
    /\ config \in [instinctRatio : InstinctRatios, perseveranceFactor : PerseveranceFactors]
    /\ pc = "idle"
    /\ op = NoOp
    /\ cur = Null
    /\ leaf = Null
    /\ score = NoScore
    /\ llmEval = NoReply
    /\ best = NoBest
    /\ rounds = <<>>
    /\ result = NoResult
    /\ returned = NoNode
    /\ calls = 0
    /\ observed = <<>>
    /\ thrown = "none"
    /\ analyzed = NoAnalysis
    /\ requests = NoRequests
    /\ passes = 0

\* The effect of initialize() on root, heap and history.  outcome is "ok",
\* "generationFails" (line 61 throws) or "analysisFails" (line 74 throws).
InitializeEffect(completion, outcome) ==
    LET created == initializeRoot(nodes, completion.text, config.perseveranceFactor)
        r == Len(created)
        analysed == initializeMetrics(created, r, completion.analysis)
    IN CASE outcome = "generationFails" ->
              /\ thrown' = "initialize"
              /\ UNCHANGED <<nodes, root, treeHistory, passes>>
         [] outcome = "analysisFails" ->
              /\ nodes' = created
              /\ root' = r
              /\ passes' = 0
              /\ thrown' = "initialize"
              /\ UNCHANGED treeHistory
         [] OTHER ->
              /\ nodes' = analysed
              /\ root' = r
              /\ treeHistory' = recordTreeState(treeHistory, analysed, r, selectedNode)
              /\ passes' = 0
              /\ thrown' = "none"

InitOutcomes == {"ok", "generationFails", "analysisFails"}

\* await mcts.initialize()
Initialize ==
    /\ Call
    /\ Len(nodes) < MaxNodes
    /\ \E completion \in Completions, outcome \in InitOutcomes :
          InitializeEffect(completion, outcome)
    /\ Return
    /\ UNCHANGED <<selectedNode, config, observed, analyzed, requests>>

\* mcts.select() called directly
CallSelect ==
    /\ Call
    /\ root # Null
    /\ pc' = "select"
    /\ cur' = root
    /\ op' = [NoOp EXCEPT !.name = "select"]
    /\ thrown' = "none"
    /\ UNCHANGED <<nodes, root, selectedNode, treeHistory, config, leaf, score, llmEval,
                   best, rounds, observed, analyzed, requests, passes>>

\* select(), one pass of the while loop through the instinct branch:
\* Math.random() < instinctRatio held, and `random` is the second draw.
SelectInstinct ==
    /\ pc = "select"
    /\ Len(Children(cur)) > 0
    /\ config.instinctRatio > 0
    /\ \E random \in RandomDraws :
          LET i == instinctChoice(nodes, cur, random)
          IN cur' = IF i = 0 THEN cur ELSE Children(cur)[i]
    /\ UNCHANGED <<nodes, root, selectedNode, treeHistory, config, pc, op, leaf, score,
                   llmEval, best, rounds, result, returned, calls, observed, thrown,
                   analyzed, requests, passes>>

\* select(), one pass of the while loop through the analytical branch
SelectAnalytical ==
    /\ pc = "select"
    /\ Len(Children(cur)) > 0
    /\ config.instinctRatio < One
    /\ cur' = analyticalChoice(nodes, cur)
    /\ UNCHANGED <<nodes, root, selectedNode, treeHistory, config, pc, op, leaf, score,
                   llmEval, best, rounds, result, returned, calls, observed, thrown,
                   analyzed, requests, passes>>

\* select(), lines 130-131, and in search() the test of line 257
SelectReturn ==
    /\ pc = "select"
    /\ Len(Children(cur)) = 0
    /\ selectedNode' = cur
    /\ IF op.name = "select"
       THEN Return
       ELSE /\ leaf' = cur
            /\ pc' = IF Len(Children(cur)) < 2 THEN "expand" ELSE "simulate"
            /\ cur' = Null
            /\ UNCHANGED <<op, score, llmEval, best, rounds>>
    /\ returned' = IF op.name = "select" THEN [by |-> "select", node |-> cur] ELSE returned
    /\ UNCHANGED <<nodes, root, treeHistory, config, result, calls, observed, thrown,
                   analyzed, requests, passes>>

\* mcts.expand(node, numChildren) called directly
CallExpand ==
    /\ Call
    /\ \E node \in TreeNodes, numChildren \in 1..2 :
          /\ Len(nodes) + numChildren <= MaxNodes
          /\ leaf' = node
          /\ op' = [NoOp EXCEPT !.name = "expand", !.numChildren = numChildren]
    /\ pc' = "expand"
    /\ thrown' = "none"
    /\ UNCHANGED <<nodes, root, selectedNode, treeHistory, config, cur, score, llmEval,
                   best, rounds, observed, analyzed, requests, passes>>

\* expand(leaf): failAt is -1 when a generation request fails, i when the
\* analysis of child i fails, 0 when nothing fails.
Expand ==
    /\ pc = "expand"
    /\ \E thoughts \in [1..op.numChildren -> Completions], failAt \in -1..op.numChildren :
          LET grown == expandLoop(nodes, leaf, thoughts, 1, failAt)
              childNodes == (Len(nodes) + 1)..Len(grown)
          IN CASE failAt = -1 ->
                    /\ thrown' = "expand"
                    /\ UNCHANGED <<nodes, observed>>
                    /\ Return
               [] failAt > 0 ->
                    /\ nodes' = grown
                    /\ thrown' = "expand"
                    /\ UNCHANGED observed
                    /\ Return
               [] OTHER ->
                    /\ nodes' = grown
                    /\ observed' = <<getCurrentTreeState(grown, root, selectedNode)>>
                    /\ UNCHANGED thrown
                    /\ IF op.name = "expand"
                       THEN Return
                       ELSE /\ leaf' = expandResult(grown, childNodes)
                            /\ pc' = "simulate"
                            /\ UNCHANGED <<op, cur, score, llmEval, best, rounds>>
    /\ UNCHANGED <<root, selectedNode, treeHistory, config, result, returned, calls,
                   analyzed, requests, passes>>

\* const score = await this.simulate(leaf)
Simulate ==
    /\ pc = "simulate"
    /\ \E reply \in EvalReplies :
          /\ llmEval' = reply
          /\ score' = simulate(nodes, leaf, reply)
    /\ pc' = "backpropagate"
    /\ UNCHANGED <<nodes, root, selectedNode, treeHistory, config, op, cur, leaf, best,
                   rounds, result, returned, calls, observed, thrown, analyzed,
                   requests, passes>>

\* mcts.backpropagate(node, score) called directly
CallBackpropagate ==
    /\ Call
    /\ \E node \in TreeNodes, s \in ScoreInputs :
          /\ leaf' = node
          /\ score' = NumScore(s)
    /\ op' = [NoOp EXCEPT !.name = "backpropagate"]
    /\ pc' = "backpropagate"
    /\ thrown' = "none"
    /\ UNCHANGED <<nodes, root, selectedNode, treeHistory, config, cur, llmEval, best, rounds,
                   observed, analyzed, requests, passes>>

\* backpropagate(leaf, score)
Backpropagate ==
    /\ pc = "backpropagate"
    /\ nodes' = backpropagate(nodes, leaf, score)
    /\ passes' = passes + 1
    /\ IF op.name \in {"search", "simulate"}
       THEN /\ pc' = "record"
            /\ UNCHANGED <<op, cur, leaf, score, llmEval, best, rounds>>
       ELSE Return
    /\ UNCHANGED <<root, selectedNode, treeHistory, config, result, returned, calls,
                   observed, thrown, analyzed, requests>>

\* node.updateParameters(params)
CallUpdateParameters ==
    /\ Call
    /\ \E node \in TreeNodes, params \in ParamInputs :
          nodes' = [nodes EXCEPT ![node] = updateParameters(@, params)]
    /\ Return
    /\ thrown' = "none"
    /\ UNCHANGED <<root, selectedNode, treeHistory, config, observed, analyzed,
                   requests, passes>>

\* node.updateContent(content)
CallUpdateContent ==
    /\ Call
    /\ \E node \in TreeNodes, content \in NodeContents :
          nodes' = [nodes EXCEPT ![node] = updateContent(@, content)]
    /\ Return
    /\ thrown' = "none"
    /\ UNCHANGED <<root, selectedNode, treeHistory, config, observed, analyzed,
                   requests, passes>>

\* mcts.search(numSimulations) called directly
CallSearch ==
    /\ Call
    /\ root # Null
    /\ \E numSimulations \in 1..MaxSimulations :
          /\ Len(nodes) + 2 * numSimulations <= MaxNodes
          /\ op' = [NoOp EXCEPT !.name = "search", !.numSimulations = numSimulations,
                                !.numChildren = 2]
    /\ pc' = "select"
    /\ cur' = root
    /\ thrown' = "none"
    /\ UNCHANGED <<nodes, root, selectedNode, treeHistory, config, leaf, score, llmEval,
                   best, rounds, observed, analyzed, requests, passes>>

\* search(), lines 267-277: record the tree, then the next pass of the loop or
\* the return to the caller
Record ==
    /\ pc = "record"
    /\ treeHistory' = recordTreeState(treeHistory, nodes, root, selectedNode)
    /\ observed' = <<getCurrentTreeState(nodes, root, selectedNode)>>
    /\ IF op.sim + 1 < op.numSimulations
       THEN /\ op' = [op EXCEPT !.sim = @ + 1]
            /\ pc' = "select"
            /\ cur' = root
            /\ leaf' = Null
            /\ score' = NoScore
            /\ llmEval' = NoReply
            /\ UNCHANGED <<best, rounds>>
       ELSE IF op.name = "search"
       THEN Return
       ELSE /\ op' = [op EXCEPT !.sim = 0]
            /\ pc' = "evaluateBest"
            /\ cur' = Null
            /\ leaf' = Null
            /\ score' = NoScore
            /\ llmEval' = NoReply
            /\ UNCHANGED <<best, rounds>>
    /\ returned' = IF op.sim + 1 < op.numSimulations \/ op.name # "search"
                   THEN returned
                   ELSE [by |-> "search", node |-> getBestNode(nodes, root)]
    /\ UNCHANGED <<nodes, root, selectedNode, config, result, calls, thrown, analyzed,
                   requests, passes>>

\* mcts.simulate(iterations, simulationsPerIteration), lines 306-311
CallSimulate ==
    /\ Call
    /\ \E iterations \in 1..MaxIterations, simulationsPerIteration \in 1..MaxSimulations,
          completion \in Completions, outcome \in InitOutcomes :
          /\ Len(nodes) + (IF root = Null THEN 1 ELSE 0)
                + 2 * iterations * simulationsPerIteration <= MaxNodes
          /\ IF root = Null
             THEN InitializeEffect(completion, outcome)
             ELSE /\ outcome = "ok"
                  /\ completion.text = TextPersist
                  /\ thrown' = "none"
                  /\ UNCHANGED <<nodes, root, treeHistory, passes>>
          /\ IF root = Null /\ outcome # "ok"
             THEN Return
             ELSE /\ op' = [NoOp EXCEPT !.name = "simulate", !.iterations = iterations,
                                        !.numSimulations = simulationsPerIteration,
                                        !.numChildren = 2, !.fresh = (root = Null)]
                  /\ pc' = "select"
                  /\ cur' = root'
                  /\ best' = [node |-> root', score |-> NumScore(NegInfinity)]
                  /\ UNCHANGED <<leaf, score, llmEval, rounds>>
    /\ UNCHANGED <<selectedNode, config, observed, analyzed, requests>>

\* simulate(iterations, simulationsPerIteration), lines 317-334: re-evaluate
\* the current best node, keep the maximum, next round or return
EvaluateBest ==
    /\ pc = "evaluateBest"
    /\ \E reply \in EvalReplies :
          LET currentBest == getBestNode(nodes, root)
              s == simulate(nodes, currentBest, reply)
              newBest == IF ScoreGt(s, best.score)
                         THEN [node |-> currentBest, score |-> s]
                         ELSE best
              newRounds == Append(rounds, [node |-> currentBest, score |-> s])
          IN IF op.i + 1 < op.iterations
             THEN /\ op' = [op EXCEPT !.i = @ + 1]
                  /\ best' = newBest
                  /\ rounds' = newRounds
                  /\ pc' = "select"
                  /\ cur' = root
                  /\ UNCHANGED <<leaf, score, llmEval, result>>
             ELSE /\ result' = [returned |-> TRUE, bestNode |-> newBest.node,
                                bestScore |-> newBest.score,
                                iterations |-> op.iterations,
                                simulationsPerIteration |-> op.numSimulations,
                                fresh |-> op.fresh, rounds |-> newRounds]
                  /\ Return
    /\ UNCHANGED <<nodes, root, selectedNode, treeHistory, config, returned, calls,
                   observed, thrown, analyzed, requests, passes>>

\* handleExploreAlternative: expand, simulate and backpropagate from a node of the tree
CallExploreAlternative ==
    /\ Call
    /\ \E node \in TreeNodes :
          /\ Len(nodes) + 2 <= MaxNodes
          /\ leaf' = node
    /\ op' = [NoOp EXCEPT !.name = "explore", !.numChildren = 2]
    /\ pc' = "expand"
    /\ thrown' = "none"
    /\ UNCHANGED <<nodes, root, selectedNode, treeHistory, config, cur, score, llmEval,
                   best, rounds, observed, analyzed, requests, passes>>

\* mcts.getBestNode() called directly
CallGetBestNode ==
    /\ pc = "idle"
    /\ calls < MaxCalls
    /\ calls' = calls + 1
    /\ result' = NoResult
    /\ returned' = [by |-> "getBestNode", node |-> getBestNode(nodes, root)]
    /\ thrown' = "none"
    /\ UNCHANGED <<nodes, root, selectedNode, treeHistory, config, pc, op, cur, leaf, score,
                   llmEval, best, rounds, observed, analyzed, requests, passes>>

Next ==
    \/ Initialize
    \/ CallSelect
    \/ SelectInstinct
    \/ SelectAnalytical
    \/ SelectReturn
    \/ CallExpand
    \/ Expand
    \/ Simulate
    \/ CallBackpropagate
    \/ Backpropagate
    \/ CallUpdateParameters
    \/ CallUpdateContent
    \/ CallSearch
    \/ Record
    \/ CallSimulate
    \/ EvaluateBest
    \/ CallExploreAlternative
    \/ CallGetBestNode

Spec == Init /\ [][Next]_vars

-----------------------------------------------------------------------------
(* getBestNode() on a tree with three siblings: the engine after            *)
(* initialize(), expand(root, 3), expand(first child) and a number of       *)
(* backpropagate calls with numeric scores.                                 *)

SiblingVisits == {2, 5, 9}
GrandchildVisits == {<<0, 0>>, <<1, 1>>, <<0, 2>>}
\* the score of every backpropagation that started under the first child, in
\* tenths; the others carried 1
ValueProfiles == {10, 100}

\* the emotionalState of a node after k passes of backpropagate's loop with
\* the score s (in tenths): every pass adds the same amount and clamps, which
\* from a start in [0,1] is one clamp of the sum
nudgeTimes(e, s, k) ==
    IF k = 0 THEN e ELSE Clamp01(JsAdd(e, k * 2 * (s - 50)))

\* a node after k passes of backpropagate's loop with the score s
backpropagateTimes(node, s, k) ==
    [node EXCEPT !.visits = @ + k,
                 !.value = NumValue(@.n + k * s),
                 !.emotionalState = nudgeTimes(@, s, k)]

\* initialize() with the example analysis
BestNodeRoot ==
    initializeMetrics(initializeRoot(<<>>, TextPersist, 5), 1, AnalysisExample)

BestNodeThoughts == [i \in 1..3 |-> [text |-> TextPersist, analysis |-> AnalysisExample]]

\* expand(root, 3)
BestNodeChildren == expandLoop(BestNodeRoot, 1, BestNodeThoughts, 1, 0)

\* expand(first child, 2)
BestNodeExpanded == expandLoop(BestNodeChildren, 2, SubSeq(BestNodeThoughts, 1, 2), 1, 0)

\* root 1 with the children 2, 3, 4 visited a, b, c times; 5 and 6 are the
\* children of 2, visited g[1] and g[2] times. The backpropagations under the
\* first child carry the score `profile` and come first, the others carry 1.
BestNodeTree(a, b, c, g, profile) ==
    [BestNodeExpanded EXCEPT
        ![1] = backpropagateTimes(backpropagateTimes(@, profile, a), 10, b + c),
        ![2] = backpropagateTimes(@, profile, a),
        ![3] = backpropagateTimes(@, 10, b),
        ![4] = backpropagateTimes(@, 10, c),
        ![5] = backpropagateTimes(@, profile, g[1]),
        ![6] = backpropagateTimes(@, profile, g[2])]

BestNodeTrees ==
    {BestNodeTree(v[1], v[2], v[3], v[4], v[5]) :
        v \in {w \in SiblingVisits \X SiblingVisits \X SiblingVisits \X GrandchildVisits \X ValueProfiles :
                  w[4][1] + w[4][2] <= w[1]}}

BestNodeInit ==
    /\ nodes \in BestNodeTrees
    /\ root = 1
    /\ selectedNode = Null
    /\ treeHistory = recordTreeState(<<>>, BestNodeRoot, 1, Null)
    /\ config = [instinctRatio |-> 500, perseveranceFactor |-> 5]
    /\ pc = "idle"
    /\ op = NoOp
    /\ cur = Null
    /\ leaf = Null
    /\ score = NoScore
    /\ llmEval = NoReply
    /\ best = NoBest
    /\ rounds = <<>>
    /\ result = NoResult
    /\ returned = NoNode
    /\ calls = 0
    /\ observed = <<>>
    /\ thrown = "none"
    /\ analyzed = NoAnalysis
    /\ requests = NoRequests
    /\ passes = nodes[1].visits

BestNodeNext ==
    \/ CallGetBestNode
    \/ CallBackpropagate
    \/ Backpropagate

BestNodeSpec == BestNodeInit /\ [][BestNodeNext]_vars

-----------------------------------------------------------------------------
(* The Node class used on its own: a root made by the constructor and       *)
(* children added by addChild, each id being whatever _generateId() draws.  *)

\* _generateId() draws 6 letters at random: two draws can be the same string
IdDraws == {1, 2}

NodeInit ==
    /\ \E id \in IdDraws, content \in NodeContents :
          nodes = <<NewNode(<<>>, id, content, Null, explorationWeight, confidenceBias, 7)>>
    /\ root = 1
    /\ selectedNode = Null
    /\ treeHistory = <<>>
    /\ config = [instinctRatio |-> 500, perseveranceFactor |-> 7]
    /\ pc = "idle"
    /\ op = NoOp
    /\ cur = Null
    /\ leaf = Null
    /\ score = NoScore
    /\ llmEval = NoReply
    /\ best = NoBest
    /\ rounds = <<>>
    /\ result = NoResult
    /\ returned = NoNode
    /\ calls = 0
    /\ observed = <<>>
    /\ thrown = "none"
    /\ analyzed = NoAnalysis
    /\ requests = NoRequests
    /\ passes = 0

\* node.addChild(content) on any node made so far
NodeAddChild ==
    /\ Len(nodes) < MaxNodes
    /\ \E node \in 1..Len(nodes), content \in NodeContents, id \in IdDraws :
          nodes' = addChildId(nodes, node, content, id)
    /\ UNCHANGED <<root, selectedNode, treeHistory, config, pc, op, cur, leaf, score,
                   llmEval, best, rounds, result, returned, calls, observed, thrown,
                   analyzed, requests, passes>>

NodeNext == NodeAddChild

NodeSpec == NodeInit /\ [][NodeNext]_vars

-----------------------------------------------------------------------------
(* OpenRouterClient.analyzeContent(text) on its own.                        *)

AnalysisFields == {"confidence", "perseverance", "instinctVsAnalysis", "emotionalState"}

\* the neutral result of lines 268-273 and 276-281
DefaultAnalysis == [f \in AnalysisFields |-> 5]

\* the numbers a JSON reply may hold for a field
JsonNumbers == {0, 5, 12}

\* What the collaborator does with the analysis prompt: the request fails
\* (generateCompletion throws), the text holds no {...}, the {...} it holds is
\* not JSON, or it is a JSON object with some of the four fields.
AnalysisReplies ==
    {[kind |-> k, json |-> <<>>] : k \in {"fail", "noJson", "badJson"}}
        \cup {[kind |-> "json", json |-> j] :
                 j \in UNION {[fs -> JsonNumbers] : fs \in SUBSET AnalysisFields}}

\* analyzeContent(text), given the reply: JSON.parse's object as it is, or the
\* neutral result
analyzeContent(reply) ==
    IF reply.kind = "json" THEN reply.json ELSE DefaultAnalysis

AnalyzeInit ==
    /\ nodes = <<>>
    /\ root = Null
    /\ selectedNode = Null
    /\ treeHistory = <<>>
    /\ config = [instinctRatio |-> 500, perseveranceFactor |-> 5]
    /\ pc = "idle"
    /\ op = NoOp
    /\ cur = Null
    /\ leaf = Null
    /\ score = NoScore
    /\ llmEval = NoReply
    /\ best = NoBest
    /\ rounds = <<>>
    /\ result = NoResult
    /\ returned = NoNode
    /\ calls = 0
    /\ observed = <<>>
    /\ thrown = "none"
    /\ analyzed = NoAnalysis
    /\ requests = NoRequests
    /\ passes = 0

\* await llmClient.analyzeContent(text)
AnalyzeContent ==
    /\ \E reply \in AnalysisReplies :
          analyzed' = <<[reply |-> reply, result |-> analyzeContent(reply)]>>
    /\ UNCHANGED <<nodes, root, selectedNode, treeHistory, config, pc, op, cur, leaf, score,
                   llmEval, best, rounds, result, returned, calls, observed, thrown,
                   requests, passes>>

AnalyzeNext == AnalyzeContent

AnalyzeSpec == AnalyzeInit /\ [][AnalyzeNext]_vars

-----------------------------------------------------------------------------
(* expand(node, numChildren) with its generation requests in flight: the   *)
(* requests are all issued before the first await, each settles on its own, *)
(* and the loop over `thoughts` starts when Promise.all has settled.        *)

\* numChildren of a call
ChildCounts == 1..3

\* thoughtPrompts.map(prompt => this.llmClient.generateCompletion(prompt)):
\* one pending request per prompt
issueRequests(numChildren) ==
    [texts |-> [i \in 1..numChildren |-> <<>>], completed |-> <<>>]

\* request i resolves with a text
resolveRequest(reqs, i, text) ==
    [texts |-> [reqs.texts EXCEPT ![i] = <<text>>], completed |-> Append(reqs.completed, i)]

Pending(reqs) == {i \in 1..Len(reqs.texts) : reqs.texts[i] = <<>>}

\* an array of the texts in the order in which the requests resolved
promiseAllInCompletionOrder(reqs) ==
    [k \in 1..Len(reqs.texts) |-> reqs.texts[reqs.completed[k]][1]]

\* Promise.all(promises), fulfilled: element i is the value of promise i
promiseAll(reqs) ==
    [i \in 1..Len(reqs.texts) |-> reqs.texts[i][1]]

ExpandInit ==
    /\ nodes = initializeMetrics(initializeRoot(<<>>, TextPersist, 7), 1, AnalysisExample)
    /\ treeHistory = recordTreeState(<<>>, nodes, 1, Null)
    /\ root = 1
    /\ selectedNode = Null
    /\ config = [instinctRatio |-> 500, perseveranceFactor |-> 7]
    /\ pc = "idle"
    /\ op = NoOp
    /\ cur = Null
    /\ leaf = Null
    /\ score = NoScore
    /\ llmEval = NoReply
    /\ best = NoBest
    /\ rounds = <<>>
    /\ result = NoResult
    /\ returned = NoNode
    /\ calls = 0
    /\ observed = <<>>
    /\ thrown = "none"
    /\ analyzed = NoAnalysis
    /\ requests = NoRequests
    /\ passes = 0

\* expand(node, numChildren), lines 143-149, up to the await
ExpandIssue ==
    /\ Call
    /\ \E node \in TreeNodes, numChildren \in ChildCounts :
          /\ Len(nodes) + numChildren <= MaxNodes
          /\ leaf' = node
          /\ op' = [NoOp EXCEPT !.name = "expand", !.numChildren = numChildren]
          /\ requests' = issueRequests(numChildren)
    /\ pc' = "generate"
    /\ thrown' = "none"
    /\ UNCHANGED <<nodes, root, selectedNode, treeHistory, config, cur, score, llmEval, best,
                   rounds, observed, analyzed, passes>>

\* one of the pending generateCompletion calls resolves
ExpandResolve ==
    /\ pc = "generate"
    /\ \E i \in Pending(requests), text \in NodeContents :
          requests' = resolveRequest(requests, i, text)
    /\ UNCHANGED <<nodes, root, selectedNode, treeHistory, config, pc, op, cur, leaf, score,
                   llmEval, best, rounds, result, returned, calls, observed, thrown,
                   analyzed, passes>>

\* one of the pending generateCompletion calls rejects: Promise.all rejects
\* and expand rethrows (lines 178-181)
ExpandReject ==
    /\ pc = "generate"
    /\ Pending(requests) # {}
    /\ thrown' = "expand"
    /\ Return
    /\ UNCHANGED <<nodes, root, selectedNode, treeHistory, config, result, returned, calls,
                   observed, analyzed, requests, passes>>

\* Promise.all has resolved: the loop of lines 154-166, then lines 169-177.
\* The children of one call get the same analysis here, or none from failAt on.
ExpandAttach ==
    /\ pc = "generate"
    /\ Len(requests.texts) > 0
    /\ Pending(requests) = {}
    /\ \E analysis \in {AnalysisExample, AnalysisLow}, failAt \in 0..Len(requests.texts) :
          LET texts == promiseAll(requests)
              thoughts == [i \in 1..Len(texts) |-> [text |-> texts[i], analysis |-> analysis]]
              grown == expandLoop(nodes, leaf, thoughts, 1, failAt)
          IN /\ nodes' = grown
             /\ IF failAt = 0
                THEN /\ observed' = <<getCurrentTreeState(grown, root, selectedNode)>>
                     /\ UNCHANGED thrown
                ELSE /\ thrown' = "expand"
                     /\ UNCHANGED observed
    /\ Return
    /\ UNCHANGED <<root, selectedNode, treeHistory, config, result, returned, calls,
                   analyzed, requests, passes>>

ExpandNext ==
    \/ ExpandIssue
    \/ ExpandResolve
    \/ ExpandReject
    \/ ExpandAttach

ExpandSpec == ExpandInit /\ [][ExpandNext]_vars

\* Each pass of select()'s loop draws afresh, so a pass that moves to a child
\* is eventually taken whenever some draw makes one; a leaf is returned at once.
SelectAdvance == (SelectInstinct \/ SelectAnalytical) /\ cur' # cur

FairSpec == Spec /\ WF_vars(SelectAdvance) /\ WF_vars(SelectReturn)

-----------------------------------------------------------------------------
(* Properties *)

InUnit(x) == x # NaN /\ 0 <= x /\ x <= One

JsGe(a, b) == a # NaN /\ b # NaN /\ a >= b

\* node and its ancestors up to the root
RECURSIVE PathToRoot(_, _)
PathToRoot(heap, n) == IF n = Null THEN {} ELSE {n} \cup PathToRoot(heap, heap[n].parent)

\* the visit counts of kids[1..i], added up
RECURSIVE sumVisits(_, _, _)
sumVisits(heap, kids, i) ==
    IF i = 0 THEN 0 ELSE sumVisits(heap, kids, i - 1) + heap[kids[i]].visits

Leaves == {n \in TreeNodes : Len(Children(n)) = 0}

\* the position of child c among the children of node
IndexOf(heap, node, c) ==
    CHOOSE i \in 1..Len(heap[node].children) : heap[node].children[i] = c

\* C1: in every reachable state, emotionalState, instinctWeight, confidence
\* and perseverance of every node of the tree lie in [0,1].
C1_MetricsInUnitInterval ==
    \A n \in TreeNodes :
        /\ InUnit(nodes[n].emotionalState)
        /\ InUnit(nodes[n].instinctWeight)
        /\ InUnit(nodes[n].confidence)
        /\ InUnit(nodes[n].perseverance)

\* C2: backpropagate(node, score) adds 1 to visits and score to value at node
\* and at each of its ancestors, and changes visits and value of no other node.
C2_BackpropagateAddsScore ==
    [][pc = "backpropagate" =>
         \A n \in 1..Len(nodes) :
            IF n \in PathToRoot(nodes, leaf)
            THEN /\ nodes'[n].visits = nodes[n].visits + 1
                 /\ score.kind = "number"
                 /\ nodes[n].value.tail = <<>>
                 /\ nodes'[n].value = NumValue(nodes[n].value.n + score.n)
            ELSE /\ nodes'[n].visits = nodes[n].visits
                 /\ nodes'[n].value = nodes[n].value]_vars

\* C3: the bestScore that simulate(iterations, simulationsPerIteration)
\* returns is the maximum of the rounds' re-evaluation scores, and the node it
\* returns is the node re-evaluated in the first round that reached it.
C3_FullSearchKeepsRunningMaximum ==
    result.returned =>
        \E k \in 1..Len(result.rounds) :
            /\ result.bestScore = result.rounds[k].score
            /\ result.bestNode = result.rounds[k].node
            /\ \A j \in 1..Len(result.rounds) :
                  /\ ~ScoreGt(result.rounds[j].score, result.rounds[k].score)
                  /\ j < k => ScoreGt(result.rounds[k].score, result.rounds[j].score)

\* C4: the node a full search returns is the childless node that getBestNode()
\* reaches in the final tree.
C4_FullSearchReturnsMostVisitedLeaf ==
    result.returned =>
        /\ result.bestNode = getBestNode(nodes, root)
        /\ Len(Children(result.bestNode)) = 0

\* C5: select() always terminates, and the node it returns and stores as the
\* selected node has no children.
C5_SelectTerminatesAtLeaf ==
    /\ (pc = "select") ~> (pc # "select")
    /\ [](returned.by = "select" =>
            /\ selectedNode = returned.node
            /\ Len(Children(returned.node)) = 0)

\* C6: with instinctRatio = 0 every move of select() goes to the child with the
\* greatest uctValue(), the earliest such child among equal scores.
C6_AnalyticalTakesFirstArgmax ==
    [][(config.instinctRatio = 0 /\ pc = "select" /\ pc' = "select" /\ cur' # cur) =>
         LET kids == Children(cur)
             k == IndexOf(nodes, cur, cur')
         IN /\ cur' \in {kids[j] : j \in 1..Len(kids)}
            /\ \A j \in 1..Len(kids) :
                  /\ JsGe(uctValue(nodes, cur'), uctValue(nodes, kids[j]))
                  /\ j < k => JsGt(uctValue(nodes, cur'), uctValue(nodes, kids[j]))]_vars

\* C7: getBestNode() goes from the root to a childless node, at each node to
\* the child with the greatest visit count, the first such child on ties;
\* for siblings with visits 5, 2, 9 it takes the third.
C7_BestNodeFollowsVisits ==
    (returned.by = "getBestNode" /\ root # Null) =>
        /\ returned.node \in TreeNodes
        /\ Len(Children(returned.node)) = 0
        /\ \A c \in PathToRoot(nodes, returned.node) \ {root} :
              LET kids == Children(nodes[c].parent)
                  k == IndexOf(nodes, nodes[c].parent, c)
              IN \A j \in 1..Len(kids) :
                    /\ nodes[c].visits >= nodes[kids[j]].visits
                    /\ j < k => nodes[c].visits > nodes[kids[j]].visits

C7_Witness ==
    /\ returned.by = "getBestNode"
    /\ Len(Children(root)) = 3
    /\ nodes[Children(root)[1]].visits = 5
    /\ nodes[Children(root)[2]].visits = 2
    /\ nodes[Children(root)[3]].visits = 9
    /\ nodes[Children(root)[1]].value.n > nodes[Children(root)[3]].value.n
    /\ returned.node = Children(root)[3]

\* C8: the score of a node is rawScore * (1 + perseveranceFactor) when its
\* content has more perseverance hits than doubt hits and rawScore otherwise,
\* rawScore being the first integer of the collaborator's reply.
C8_EvaluateAppliesPerseveranceBonus ==
    (pc = "backpropagate" /\ llmEval.kind = "int") =>
        score = NumScore(IF showsPerseverance(nodes[leaf].content)
                         THEN (10 * llmEval.int * (10 + nodes[leaf].perseveranceFactor)) \div 10
                         ELSE 10 * llmEval.int)

\* C9: the score is 5 when the scoring request fails, and is computed from a
\* raw score of 5 when the reply holds no integer.
C9_EvaluateRecoversWithFive ==
    /\ (pc = "backpropagate" /\ llmEval.kind = "fail") => score = NumScore(50)
    /\ (pc = "backpropagate" /\ llmEval.kind = "none") =>
          score = NumScore(IF showsPerseverance(nodes[leaf].content)
                           THEN (50 * (10 + nodes[leaf].perseveranceFactor)) \div 10
                           ELSE 50)

\* C10: simulate(I, S) started without a root and completed leaves a tree of
\* at most 1 + I*S leaves and a history of at least 1 + I*S snapshots.
C10_FullSearchLeavesAndHistory ==
    (result.returned /\ result.fresh) =>
        /\ Cardinality(Leaves) <= 1 + result.iterations * result.simulationsPerIteration
        /\ Len(treeHistory) >= 1 + result.iterations * result.simulationsPerIteration

C10_Witness ==
    /\ result.returned
    /\ result.fresh
    /\ result.iterations * result.simulationsPerIteration >= 2
    /\ Cardinality(Leaves) = 3
    /\ Len(treeHistory) = 3

\* C11: every snapshot added to the history (after initialize and after each
\* simulation step) is handed to the registered observer, and every snapshot
\* the observer receives is the most recent entry of the history.
C11_ObserverReceivesLatestSnapshot ==
    [][/\ Len(treeHistory') > Len(treeHistory) =>
              observed' = <<treeHistory'[Len(treeHistory')]>>
       /\ observed' # observed =>
              /\ Len(treeHistory') > 0
              /\ observed' = <<treeHistory'[Len(treeHistory')]>>]_vars

\* C12: the history only grows, by one snapshot of the live tree at a time,
\* and it grows by one at every successful initialize and at every completed
\* simulation step, the step of a manual exploration included.
C12_HistoryGainsOneSnapshotPerStep ==
    [][/\ \/ treeHistory' = treeHistory
          \/ treeHistory' = Append(treeHistory,
                                   getCurrentTreeState(nodes', root', selectedNode'))
       /\ (root' # root /\ thrown' = "none") => Len(treeHistory') = Len(treeHistory) + 1
       /\ (pc = "backpropagate" /\ op.name \in {"search", "simulate", "explore"}) =>
              \/ pc' = "record"
              \/ Len(treeHistory') = Len(treeHistory) + 1
       /\ pc = "record" => Len(treeHistory') = Len(treeHistory) + 1]_vars

\* C13: for every node of the live tree, findNodeById on a snapshot of the
\* tree with the node's id returns a snapshot node with that id and the node's
\* visit count and content.
C13_SnapshotRoundTrip ==
    \A n \in TreeNodes :
        LET found == treeFindNodeById(getCurrentTreeState(nodes, root, selectedNode).tree,
                                      nodes[n].id)
        IN /\ found # <<>>
           /\ found[1].id = nodes[n].id
           /\ found[1].visits = nodes[n].visits
           /\ found[1].content = nodes[n].content

\* C14: a node's id never changes, and no two nodes of the tree have the same id.
C14_IdsFixedAndUnique ==
    /\ [](\A m, n \in TreeNodes : m # n => nodes[m].id # nodes[n].id)
    /\ [][\A n \in 1..Len(nodes) : nodes'[n].id = nodes[n].id]_vars

\* C15: the root has no parent and depth 0; every other node has the depth of
\* its parent plus 1 and the path of its parent followed by the parent's id;
\* the length of a node's path is its depth.
C15_DepthAndPath ==
    /\ nodes[root].parent = Null
    /\ nodes[root].depth = 0
    /\ \A n \in 1..Len(nodes) :
          /\ Len(nodes[n].path) = nodes[n].depth
          /\ n # root =>
                /\ nodes[n].depth = nodes[nodes[n].parent].depth + 1
                /\ nodes[n].path = Append(nodes[nodes[n].parent].path, nodes[nodes[n].parent].id)

C15_Witness ==
    \E n \in 1..Len(nodes) :
        /\ nodes[n].depth = 2
        /\ nodes[n].path = <<nodes[root].id, nodes[nodes[n].parent].id>>
        /\ Len(Children(nodes[n].parent)) = 2

\* C16: updateParameters(params) sets each of emotionalState, instinctWeight,
\* confidence and perseverance that params supplies to its value clamped to
\* [0,1] and leaves every other field of the node as it was, whatever else
\* params holds.
C16_UpdateMetricsTouchesOnlyMetrics ==
    \A n \in TreeNodes, params \in ParamInputs :
        LET node == nodes[n]
            updated == updateParameters(node, params)
            Supplied(f, new, old) == IF f \in DOMAIN params THEN new = Clamp01(params[f])
                                     ELSE new = old
        IN /\ Supplied("emotionalState", updated.emotionalState, node.emotionalState)
           /\ Supplied("instinctWeight", updated.instinctWeight, node.instinctWeight)
           /\ Supplied("confidence", updated.confidence, node.confidence)
           /\ Supplied("perseverance", updated.perseverance, node.perseverance)
           /\ updated.explorationWeight = node.explorationWeight
           /\ updated.confidenceBias = node.confidenceBias
           /\ updated.perseveranceFactor = node.perseveranceFactor
           /\ updated.visits = node.visits
           /\ updated.value = node.value
           /\ updated.content = node.content
           /\ updated.children = node.children

\* C17: when initialize() ends with an error, root, selected node and history
\* are as they were before the call.
C17_FailedInitializeLeavesEngine ==
    [][thrown' = "initialize" =>
          /\ root' = root
          /\ selectedNode' = selectedNode
          /\ treeHistory' = treeHistory]_vars

\* C18: when expand(node) ends with an error, every node that existed before
\* the call is as it was, but for children appended to the expanded node, and
\* every node the call created is attached to the expanded node.
C18_FailedExpandKeepsTree ==
    [][thrown' = "expand" =>
          /\ Len(nodes') >= Len(nodes)
          /\ \A n \in 1..Len(nodes) :
                /\ nodes'[n] = [nodes[n] EXCEPT !.children = nodes'[n].children]
                /\ SubSeq(nodes'[n].children, 1, Len(nodes[n].children)) = nodes[n].children
                /\ n # leaf => nodes'[n].children = nodes[n].children
          /\ \A c \in (Len(nodes) + 1)..Len(nodes') :
                /\ nodes'[c].parent = leaf
                /\ \E i \in 1..Len(nodes'[leaf].children) : nodes'[leaf].children[i] = c]_vars

\* an expand that failed at the analysis of its second child: the first child
\* is analysed, the second is attached with the metrics of the constructor
C18_Witness ==
    /\ thrown = "expand"
    /\ \E n \in TreeNodes :
          /\ Len(Children(n)) = 2
          /\ nodes[Children(n)[1]].confidence # 500
          /\ nodes[Children(n)[2]].confidence = 500
          /\ nodes[Children(n)[2]].emotionalState = 500

\* C19: analyzeContent returns the four fields, each an integer from 1 to 10,
\* and returns the neutral result {5,5,5,5} whenever the reply is not such a
\* result.
C19_AnalysisIsValidOrNeutral ==
    analyzed # NoAnalysis =>
        LET reply == analyzed[1].reply
            res == analyzed[1].result
            Valid(r) == /\ DOMAIN r = AnalysisFields
                        /\ \A f \in AnalysisFields : r[f] \in 1..10
        IN /\ Valid(res)
           /\ (reply.kind # "json" \/ ~Valid(reply.json)) => res = DefaultAnalysis

\* C20: in a search step the score handed to backpropagate is the number that
\* evaluating the step's leaf gave, and every node's accumulated value is a
\* number (a sum of such scores).
C20_SearchBackpropagatesEvaluationScore ==
    /\ (pc = "backpropagate" /\ op.name \in {"search", "simulate"}) =>
           score = NumScore(simulateNode(nodes, leaf, llmEval))
    /\ \A n \in 1..Len(nodes) : nodes[n].value.tail = <<>>

\* C21: in one expand call all generation requests are issued before any of
\* them settles, and when the last has resolved the children are appended to
\* node.children in the order of the requests, whatever the order in which
\* the requests resolved.
C21_ChildrenInRequestOrder ==
    [][/\ (pc = "idle" /\ pc' = "generate") =>
              /\ Len(requests'.texts) = op'.numChildren
              /\ Pending(requests') = 1..op'.numChildren
       /\ (pc = "generate" /\ Pending(requests) # {}) => nodes' = nodes
       /\ (pc = "generate" /\ pc' = "idle" /\ thrown' = "none") =>
              /\ Pending(requests) = {}
              /\ Len(nodes'[leaf].children)
                    = Len(nodes[leaf].children) + Len(requests.texts)
              /\ \A i \in 1..Len(requests.texts) :
                    LET child == nodes'[leaf].children[Len(nodes[leaf].children) + i]
                    IN /\ child > Len(nodes)
                       /\ nodes'[child].content = requests.texts[i][1]]_vars

\* C21 witness: two requests resolved in the reverse of the order in which
\* they were issued, with different texts, and the children are attached.
C21_Witness ==
    /\ pc = "idle"
    /\ thrown = "none"
    /\ Len(requests.texts) >= 2
    /\ requests.completed[1] = 2
    /\ requests.completed[2] = 1
    /\ requests.texts[1] # requests.texts[2]
    /\ Len(nodes) >= 3

\* C22: for every node with children whose emotionalState values lie in
\* [0,1], the instinct choice of select() picks one of the children for every
\* random draw in [0,1).
C22_InstinctChoiceDrawsAChild ==
    \A n \in TreeNodes :
        (/\ Len(nodes[n].children) > 0
         /\ \A i \in 1..Len(nodes[n].children) :
               InUnit(nodes[nodes[n].children[i]].emotionalState)) =>
            \A random \in RandomDraws :
                instinctChoice(nodes, n, random) \in 1..Len(nodes[n].children)

\* C23: a node's visit count never decreases; a step changes it only when the
\* step is a backpropagation pass whose path holds the node, and then by
\* exactly 1; a new node starts with visit count 0.
C23_VisitsCountPasses ==
    [][/\ Len(nodes') >= Len(nodes)
       /\ \A n \in 1..Len(nodes) :
             nodes'[n].visits =
                 nodes[n].visits
                    + (IF pc = "backpropagate" /\ n \in PathToRoot(nodes, leaf) THEN 1 ELSE 0)
       /\ \A n \in (Len(nodes) + 1)..Len(nodes') : nodes'[n].visits = 0]_vars

\* C23 witness: two passes went through the root, one of them through a child
\* and the other not, and a third node was never visited.
C23_Witness ==
    /\ root # Null
    /\ nodes[root].visits = 2
    /\ \E c \in TreeNodes : nodes[c].parent = root /\ nodes[c].visits = 1
    /\ \E c \in TreeNodes : nodes[c].visits = 0

\* C24: in every step that leaves this.root alone no node disappears, the
\* nodes that exist keep parent, depth, path and their place among their
\* siblings, and new nodes appear only in an expand, as children appended to
\* the expanded node in the order of their creation.
C24_TreeOnlyGrows ==
    [][root' = root =>
         LET fresh == (Len(nodes) + 1)..Len(nodes')
         IN /\ Len(nodes') >= Len(nodes)
            /\ TreeNodes \subseteq {n \in 1..Len(nodes') : n \in PathToRoot(nodes', n)
                                                          /\ root' \in PathToRoot(nodes', n)}
            /\ \A n \in 1..Len(nodes) :
                  /\ nodes'[n].parent = nodes[n].parent
                  /\ nodes'[n].depth = nodes[n].depth
                  /\ nodes'[n].path = nodes[n].path
                  /\ Len(nodes'[n].children) >= Len(nodes[n].children)
                  /\ SubSeq(nodes'[n].children, 1, Len(nodes[n].children)) = nodes[n].children
                  /\ (Len(nodes'[n].children) > Len(nodes[n].children)) =>
                         (pc = "expand" /\ n = leaf)
            /\ fresh # {} =>
                  /\ pc = "expand"
                  /\ nodes'[leaf].children
                        = nodes[leaf].children
                             \o [i \in 1..Cardinality(fresh) |-> Len(nodes) + i]
                  /\ \A c \in fresh : nodes'[c].parent = leaf /\ nodes'[c].children = <<>>]_vars

\* C24 witness: after the root, one of its children was expanded, each into
\* two children.
C24_Witness ==
    /\ pc = "idle"
    /\ root # Null
    /\ Len(nodes[root].children) = 2
    /\ \E n \in TreeNodes : nodes[n].parent = root /\ Len(nodes[n].children) = 2

\* C25: a backpropagation pass with a numeric score sets the emotionalState of
\* each node on its path to the previous value plus ((score/10) - 0.5) * 0.2,
\* clamped to [0,1]; a score of 5 leaves it as it was, a score above 5 does not
\* lower it and a score below 5 does not raise it.
C25_EmotionalNudge ==
    [][(pc = "backpropagate" /\ score.kind = "number") =>
         \A n \in PathToRoot(nodes, leaf) :
            LET before == nodes[n].emotionalState
                after == nodes'[n].emotionalState
            IN /\ after = Clamp01(JsAdd(before, 2 * (score.n - 50)))
               /\ score.n = 50 => after = before
               /\ score.n > 50 => JsGe(after, before)
               /\ score.n < 50 => JsGe(before, after)]_vars

\* C26: a snapshot that is in the history stays in its place and is never
\* changed by a later step, whatever the step does to the live tree.
C26_SnapshotsAreFrozen ==
    [][/\ Len(treeHistory') >= Len(treeHistory)
       /\ \A i \in 1..Len(treeHistory) : treeHistory'[i] = treeHistory[i]]_vars

\* C26 witness: the history holds two different snapshots and the live tree
\* has moved on from both.
C26_Witness ==
    /\ root # Null
    /\ Len(treeHistory) >= 2
    /\ treeHistory[1] # treeHistory[2]
    /\ \A i \in 1..Len(treeHistory) :
          treeHistory[i].tree # getCurrentTreeState(nodes, root, selectedNode).tree

\* C27: as long as no call fails and the tree is touched by search steps only
\* (no direct expand or backpropagate, no manual exploration), the node that
\* select hands to a step has no children, so the step expands it, and after
\* k completed steps the tree under the root has 1 + 2k nodes, each with 0
\* or 2 children.
C27_EveryStepExpands ==
    [](thrown = "none" /\ op.name \notin {"expand", "backpropagate", "explore"})
        => [](root # Null =>
                /\ pc = "expand" => Len(Children(leaf)) = 0
                /\ Cardinality(TreeNodes)
                      = 1 + 2 * (passes + IF pc \in {"simulate", "backpropagate"} THEN 1 ELSE 0)
                /\ \A n \in TreeNodes : Len(Children(n)) \in {0, 2})

\* C27 witness: two steps completed on a fresh engine: five nodes.
C27_Witness ==
    /\ root # Null
    /\ pc = "idle"
    /\ calls = 1
    /\ thrown = "none"
    /\ passes = 2
    /\ Len(treeHistory) = 3
    /\ Cardinality(TreeNodes) = 5

\* C28: the visit count of every node is at least the sum of the visit counts
\* of its children, and the visit count of the root is the number of
\* backpropagate calls completed since the root was assigned.
C28_VisitsDominateChildren ==
    /\ \A n \in TreeNodes : nodes[n].visits >= sumVisits(nodes, Children(n), Len(Children(n)))
    /\ root # Null => nodes[root].visits = passes

\* C28 witness: three passes went through the root, two of them through one
\* child.
C28_Witness ==
    /\ root # Null
    /\ pc = "idle"
    /\ passes = 3
    /\ \E c \in TreeNodes : nodes[c].parent = root /\ nodes[c].visits = 2

\* C29: in every snapshot, in the history or handed to the observer, the
\* selectedNodeId is null or the id of a node of that snapshot's tree.
C29_SelectedNodeInSnapshot ==
    LET Sound(snapshot) ==
            \/ snapshot.selectedNodeId = Null
            \/ treeFindNodeById(snapshot.tree, snapshot.selectedNodeId) # <<>>
    IN /\ \A i \in 1..Len(treeHistory) : Sound(treeHistory[i])
       /\ \A i \in 1..Len(observed) : Sound(observed[i])

\* C30: whenever no call is running (select can start), every node of the
\* tree that has a child has been visited at least once, so that select never
\* scores a child whose parent has visit count 0.
C30_ParentsAreVisited ==
    /\ pc = "idle" => \A n \in TreeNodes : Len(Children(n)) > 0 => nodes[n].visits >= 1
    /\ (pc = "select" /\ Len(Children(cur)) > 0) => nodes[cur].visits >= 1

====
